---- MODULE Spec2Model ----
(***************************************************************************)
(* Model of cli/daemon/dash/ai/parser.go: the doc-comment section parser   *)
(* (parseDocSection, parseErrorDoc, parsePathDoc) and the synchronization  *)
(* pass parseCode.                                                         *)
(*                                                                         *)
(* A Go string is a sequence of bytes, each a number in 0..255 (texts are   *)
(* UTF-8), so that len, slicing, splitting, trimming, prefix tests and     *)
(* cutting are computed as the Go code computes them.  Go indices are kept *)
(* 0-based (start = -1 means "no label seen"); the element at Go index i   *)
(* of a slice s is s[i + 1] here.                                          *)
(***************************************************************************)
EXTENDS Integers, Sequences, FiniteSets, TLC

VARIABLES
    doc,          \* SpecDoc: the doc text handed to the section parser
    dpc,          \* SpecDoc: "input" before the call, else the function that ran
    section,      \* SpecDoc: the label parseDocSection was called with
    outDoc,       \* SpecDoc: returned remainder
    outEntries,   \* SpecDoc: returned []DocEntry
    outErrors,    \* SpecDoc: returned []*ErrorInput
    outPathDocs   \* SpecDoc: returned map[string]string

docVars == <<doc, dpc, section, outDoc, outEntries, outErrors, outPathDocs>>

VARIABLES
    services,       \* Spec: file of each Target |-> its endpoint record (mutated in place)
    initial,        \* Spec: the records as the caller supplied them
    passResources,  \* Spec: package |-> what pass.Resources() returns for it
    passDecls,      \* Spec: package |-> declarations the schema parser parses in its pass
    parsedDecls,    \* Spec: schemaParser.ParsedDecls(), accumulated over the passes
    errs,           \* Spec: the perr.List of diagnostics
    pc,             \* Spec: position in parseCode
    pkgsLeft,       \* Spec: packages the range over pkgs has not visited yet
    pkgOrder,       \* Spec: packages in the order the range visited them
    resIdx,         \* Spec: next index into pass.Resources()
    declIdx,        \* Spec: next index into ParsedDecls()
    abortAt,        \* Spec: "none", or the call that failed or bailed out
    rtn,            \* Spec: returned *SyncResult (Nil for nil)
    err             \* Spec: returned error (Nil for nil)

codeVars == <<services, initial, passResources, passDecls, parsedDecls, errs, pc,
              pkgsLeft, pkgOrder, resIdx, declIdx, abortAt, rtn, err>>

vars == <<docVars, codeVars>>

(***************************************************************************)
(* Bounds                                                                  *)
(***************************************************************************)
\* longest doc text, in lines, drawn from LinePool
MaxLines == 4
\* most diagnostics the parsing collaborator reports in one run
MaxDiags == 1

(***************************************************************************)
(* strings package                                                         *)
(***************************************************************************)
\* the ASCII bytes the code names
LF == 10
Dash == 45
Colon == 58

\* unicode/utf8: RuneError, RuneSelf, UTFMax
RuneError == 65533
RuneSelf == 128
UTFMax == 4

\* unicode.IsSpace on a code point: '\t', '\n', '\v', '\f', '\r', ' ', U+0085,
\* U+00A0, and above Latin-1 the White_Space table: U+1680, U+2000..U+200A,
\* U+2028, U+2029, U+202F, U+205F, U+3000
IsSpace(r) ==
    \/ r \in 9..13
    \/ r \in {32, 133, 160, 5760, 8232, 8233, 8239, 8287, 12288}
    \/ r \in 8192..8202

\* a UTF-8 continuation byte, 10xxxxxx
IsContinuation(b) == b \in 128..191

\* utf8.RuneStart
RuneStart(b) == ~IsContinuation(b)

\* the width the first byte of an encoding announces (utf8's table `first`);
\* 0 for a byte that starts no encoding (0x80..0xC1 and 0xF5..0xFF)
RuneLen(b) ==
    IF b < RuneSelf THEN 1
    ELSE IF b \in 194..223 THEN 2
    ELSE IF b \in 224..239 THEN 3
    ELSE IF b \in 240..244 THEN 4
    ELSE 0

\* the accept range of the second byte for first byte b0 (utf8's
\* acceptRanges): no overlong forms, no surrogates, nothing above U+10FFFF
SecondByteOK(b0, b1) ==
    /\ b1 >= (IF b0 = 224 THEN 160 ELSE IF b0 = 240 THEN 144 ELSE 128)
    /\ b1 <= (IF b0 = 237 THEN 159 ELSE IF b0 = 244 THEN 143 ELSE 191)

\* s begins with a well-formed encoding of n bytes
ValidRune(s, n) ==
    /\ n >= 1
    /\ Len(s) >= n
    /\ n >= 2 => SecondByteOK(s[1], s[2])
    /\ \A k \in 3..n : IsContinuation(s[k])

\* the code point of the well-formed encoding of n bytes s begins with
RuneValue(s, n) ==
    IF n = 1 THEN s[1]
    ELSE IF n = 2 THEN (s[1] - 192) * 64 + (s[2] - 128)
    ELSE IF n = 3 THEN (s[1] - 224) * 4096 + (s[2] - 128) * 64 + (s[3] - 128)
    ELSE (s[1] - 240) * 262144 + (s[2] - 128) * 4096 + (s[3] - 128) * 64
            + (s[4] - 128)

DecodeRuneOfLen(s, n) ==
    IF ValidRune(s, n) THEN [rune |-> RuneValue(s, n), size |-> n]
    ELSE [rune |-> RuneError, size |-> 1]

\* utf8.DecodeRuneInString: [rune, size] of the first encoding in s; an
\* invalid or short encoding is RuneError of width 1, the empty string
\* RuneError of width 0
DecodeRune(s) ==
    IF s = <<>> THEN [rune |-> RuneError, size |-> 0]
    ELSE IF s[1] < RuneSelf THEN [rune |-> s[1], size |-> 1]
    ELSE DecodeRuneOfLen(s, RuneLen(s[1]))

\* the Go index DecodeLastRuneInString decodes from: the nearest rune start
\* among the bytes at lim..end-2 (the last byte itself is not looked at),
\* else the byte before lim, else 0
LastRuneStart(s, lim) ==
    IF \E j \in lim..(Len(s) - 2) : RuneStart(s[j + 1])
    THEN CHOOSE j \in lim..(Len(s) - 2) :
            /\ RuneStart(s[j + 1])
            /\ \A h \in (j + 1)..(Len(s) - 2) : ~RuneStart(s[h + 1])
    ELSE IF lim = 0 THEN 0 ELSE lim - 1

\* the decoded rune d is the last one of a string of n bytes only if it ends
\* where the string ends
RuneEndingAt(d, n) ==
    IF d.size # n THEN [rune |-> RuneError, size |-> 1] ELSE d

DecodeLastRuneFrom(s, start) ==
    RuneEndingAt(DecodeRune(SubSeq(s, start + 1, Len(s))), Len(s) - start)

\* utf8.DecodeLastRuneInString: [rune, size] of the last encoding in s; the
\* search for its first byte goes back at most UTFMax bytes
DecodeLastRune(s) ==
    IF s = <<>> THEN [rune |-> RuneError, size |-> 0]
    ELSE IF s[Len(s)] < RuneSelf THEN [rune |-> s[Len(s)], size |-> 1]
    ELSE DecodeLastRuneFrom(s,
             LastRuneStart(s, IF Len(s) < UTFMax THEN 0 ELSE Len(s) - UTFMax))

RECURSIVE TrimLeftSpace(_)

\* s without its first rune d when that is white space
DropLeftSpace(s, d) ==
    IF IsSpace(d.rune) THEN TrimLeftSpace(SubSeq(s, d.size + 1, Len(s))) ELSE s

\* strings.TrimLeftFunc(s, unicode.IsSpace)
TrimLeftSpace(s) == IF s = <<>> THEN s ELSE DropLeftSpace(s, DecodeRune(s))

RECURSIVE TrimRightSpace(_)

\* s without its last rune d when that is white space
DropRightSpace(s, d) ==
    IF IsSpace(d.rune) THEN TrimRightSpace(SubSeq(s, 1, Len(s) - d.size)) ELSE s

\* strings.TrimRightFunc(s, unicode.IsSpace)
TrimRightSpace(s) == IF s = <<>> THEN s ELSE DropRightSpace(s, DecodeLastRune(s))

\* strings.TrimSpace
TrimSpace(s) == TrimRightSpace(TrimLeftSpace(s))

\* strings.HasPrefix
HasPrefix(s, prefix) ==
    /\ Len(s) >= Len(prefix)
    /\ SubSeq(s, 1, Len(prefix)) = prefix

\* strings.TrimPrefix
TrimPrefix(s, prefix) ==
    IF HasPrefix(s, prefix) THEN SubSeq(s, Len(prefix) + 1, Len(s)) ELSE s

RECURSIVE IndexFrom(_, _, _)
IndexFrom(s, c, i) ==
    IF i > Len(s) THEN 0
    ELSE IF s[i] = c THEN i ELSE IndexFrom(s, c, i + 1)

\* strings.Cut with a one-byte separator
Cut(s, sep) ==
    LET k == IndexFrom(s, sep, 1)
    IN  IF k = 0
        THEN [before |-> s, after |-> <<>>, found |-> FALSE]
        ELSE [before |-> SubSeq(s, 1, k - 1),
              after  |-> SubSeq(s, k + 1, Len(s)),
              found  |-> TRUE]

\* the lines of s from position i on, added to acc; k is the position of the
\* next separator, 0 when there is none
RECURSIVE SplitFrom(_, _, _, _)
SplitAt(s, sep, i, k, acc) ==
    IF k = 0 THEN Append(acc, SubSeq(s, i, Len(s)))
    ELSE SplitFrom(s, sep, k + 1, Append(acc, SubSeq(s, i, k - 1)))

SplitFrom(s, sep, i, acc) == SplitAt(s, sep, i, IndexFrom(s, sep, i), acc)

\* strings.Split with a one-byte separator: Split("") is one empty line
Split(s, sep) == SplitFrom(s, sep, 1, <<>>)

\* strings.Join with a one-byte separator
RECURSIVE Join(_, _)
Join(elems, sep) ==
    IF elems = <<>> THEN <<>>
    ELSE IF Len(elems) = 1 THEN elems[1]
    ELSE elems[1] \o <<sep>> \o Join(Tail(elems), sep)

(***************************************************************************)
(* Section labels (declared outside parser.go)                             *)
(***************************************************************************)
\* "errors"
ErrDocPrefix == <<101, 114, 114, 111, 114, 115>>
\* "path params"
PathDocPrefix == <<112, 97, 116, 104, 32, 112, 97, 114, 97, 109, 115>>

(***************************************************************************)
(* parseDocSection                                                         *)
(***************************************************************************)
\* line 77: the trimmed line starts with the label and a colon
IsSectionLabel(line, label) == HasPrefix(TrimSpace(line), label \o <<Colon>>)

\* lines 82-88: a line longer than two bytes whose first two bytes, trimmed,
\* are neither "-" nor "" is the one on which end is put back to i - 1
IsNotListLine(line) ==
    /\ Len(line) > 2
    /\ TrimSpace(SubSeq(line, 1, 2)) \notin {<<Dash>>, <<>>}

\* mutant of TwoBlankLines: the test on the current line is inverted
TwoBlankLinesInverted(line, prev) == line # <<>> /\ prev = <<>>

\* line 91: the raw line is empty and the (already trimmed) previous one too
TwoBlankLines(line, prev) == line = <<>> /\ prev = <<>>

\* line 91: `line == "" && lines[i-1] == ""` evaluates lines[i-1] only when
\* the raw line is empty; the indices i of the iterations that evaluate it
PrevLineRead(line, i) == IF line = <<>> THEN {i} ELSE {}

\* mutant of scanLines: only the first label line sets start
RECURSIVE scanLinesFirstLabel(_, _, _, _, _)
scanLinesFirstLabel(lines, label, i, start, end) ==
    IF i >= Len(lines)
    THEN [lines |-> lines, start |-> start, end |-> end, reads |-> {}]
    ELSE
      LET line == lines[i + 1]
          isLabel == IsSectionLabel(line, label)
      IN  IF ~isLabel /\ start = -1
          THEN scanLinesFirstLabel(lines, label, i + 1, start, i)
          ELSE
            LET start1 == IF isLabel /\ start = -1 THEN i ELSE start
                end1 == IF ~isLabel /\ IsNotListLine(line) THEN i - 1 ELSE i
                lines1 == [lines EXCEPT ![i + 1] = TrimSpace(line)]
                read == PrevLineRead(line, i)
            IN  IF TwoBlankLines(line, IF i = 0 THEN line ELSE lines1[i])
                THEN [lines |-> lines1, start |-> start1, end |-> end1,
                      reads |-> read]
                ELSE [scanLinesFirstLabel(lines1, label, i + 1, start1, end1)
                         EXCEPT !.reads = @ \cup read]

\* mutant of scanLines: the `continue` of lines 80-81 is missing, the lines
\* before the label go on to lines 82-93
RECURSIVE scanLinesNoContinue(_, _, _, _, _)
scanLinesNoContinue(lines, label, i, start, end) ==
    IF i >= Len(lines)
    THEN [lines |-> lines, start |-> start, end |-> end, reads |-> {}]
    ELSE
      LET line == lines[i + 1]
          isLabel == IsSectionLabel(line, label)
          start1 == IF isLabel THEN i ELSE start
          end1 == IF ~isLabel /\ IsNotListLine(line) THEN i - 1 ELSE i
          lines1 == [lines EXCEPT ![i + 1] = TrimSpace(line)]
          read == PrevLineRead(line, i)
      IN  IF TwoBlankLines(line, IF i = 0 THEN line ELSE lines1[i])
          THEN [lines |-> lines1, start |-> start1, end |-> end1,
                reads |-> read]
          ELSE [scanLinesNoContinue(lines1, label, i + 1, start1, end1)
                   EXCEPT !.reads = @ \cup read]

\* lines 75-94: the scan loop.  The "break" of line 87 leaves the switch, not
\* the loop, so after end = i - 1 the loop goes on to line 90 and to the next
\* line, where line 76 sets end again.
RECURSIVE scanLines(_, _, _, _, _)
scanLines(lines, label, i, start, end) ==
    IF i >= Len(lines)
    THEN [lines |-> lines, start |-> start, end |-> end, reads |-> {}]
    ELSE
      LET line == lines[i + 1]
          isLabel == IsSectionLabel(line, label)
      IN  IF ~isLabel /\ start = -1
          THEN scanLines(lines, label, i + 1, start, i)
          ELSE
            LET start1 == IF isLabel THEN i ELSE start
                end1 == IF ~isLabel /\ IsNotListLine(line) THEN i - 1 ELSE i
                lines1 == [lines EXCEPT ![i + 1] = TrimSpace(line)]
                read == PrevLineRead(line, i)
            IN  IF TwoBlankLines(line, IF i = 0 THEN line ELSE lines1[i])
                THEN [lines |-> lines1, start |-> start1, end |-> end1,
                      reads |-> read]
                ELSE [scanLines(lines1, label, i + 1, start1, end1)
                         EXCEPT !.reads = @ \cup read]

\* mutant of collectEntries: a line without colon met before any entry starts
\* an entry of its own
RECURSIVE collectEntriesOrphanEntry(_, _)
collectEntriesOrphanEntry(lines, acc) ==
    IF lines = <<>> THEN acc
    ELSE
      LET line == Head(lines)
          c == Cut(line, Colon)
          key == TrimSpace(TrimPrefix(c.before, <<Dash>>))
      IN  IF c.found
          THEN collectEntriesOrphanEntry(Tail(lines),
                   Append(acc, [Key |-> key, Doc |-> TrimSpace(c.after)]))
          ELSE IF Len(acc) > 0 /\ line # <<>>
          THEN collectEntriesOrphanEntry(Tail(lines),
                   [acc EXCEPT ![Len(acc)].Doc = @ \o <<LF>> \o line])
          ELSE IF line # <<>>
          THEN collectEntriesOrphanEntry(Tail(lines),
                   Append(acc, [Key |-> <<>>, Doc |-> line]))
          ELSE collectEntriesOrphanEntry(Tail(lines), acc)

\* lines 99-111: the entry loop over lines[start+1 : end+1]
RECURSIVE collectEntries(_, _)
collectEntries(lines, acc) ==
    IF lines = <<>> THEN acc
    ELSE
      LET line == Head(lines)
          c == Cut(line, Colon)
          key == TrimSpace(TrimPrefix(c.before, <<Dash>>))
      IN  IF c.found
          THEN collectEntries(Tail(lines),
                   Append(acc, [Key |-> key, Doc |-> TrimSpace(c.after)]))
          ELSE IF Len(acc) > 0 /\ line # <<>>
          THEN collectEntries(Tail(lines),
                   [acc EXCEPT ![Len(acc)].Doc = @ \o <<LF>> \o line])
          ELSE collectEntries(Tail(lines), acc)

\* line 112: strings.Join(lines[:start], "\n")
sectionRemainder(lines, start) == Join(SubSeq(lines, 1, start), LF)

\* lines 98-112: the result for the lines, start and end the scan sc left
sectionOf(sc) ==
    [doc |-> sectionRemainder(sc.lines, sc.start),
     entries |-> collectEntries(
         SubSeq(sc.lines, sc.start + 2, sc.end + 1), <<>>)]

\* mutant of parseDocSection: the early return of lines 95-97 is missing
parseDocSectionNoEarlyReturn(d, label) ==
    sectionOf(scanLines(Split(d, LF), label, 0, -1, -1))

\* lines 95-112: the early return when the scan sc found no label, else the
\* section
sectionOrDoc(d, sc) ==
    IF sc.start = -1 THEN [doc |-> d, entries |-> <<>>] ELSE sectionOf(sc)

\* lines 70-113
parseDocSection(d, label) ==
    sectionOrDoc(d, scanLines(Split(d, LF), label, 0, -1, -1))

\* lines 52-58: the entries r of the section as errors
errorDocsOf(r) ==
    [doc |-> r.doc,
     errors |-> [k \in 1..Len(r.entries) |->
                    [Code |-> r.entries[k].Key, Doc |-> r.entries[k].Doc]]]

\* lines 51-59
parseErrorDoc(d) == errorDocsOf(parseDocSection(d, ErrDocPrefix))

\* mutant of entriesToMap: an entry does not overwrite an earlier one of the
\* same key
RECURSIVE entriesToMapFirstWins(_, _)
entriesToMapFirstWins(docs, m) ==
    IF docs = <<>> THEN m
    ELSE LET d == Head(docs)
         IN  entriesToMapFirstWins(Tail(docs),
                 [k \in (DOMAIN m) \cup {d.Key} |->
                     IF k \in DOMAIN m THEN m[k] ELSE d.Doc])

\* lines 63-66: later entries overwrite earlier ones with the same key
RECURSIVE entriesToMap(_, _)
entriesToMap(docs, m) ==
    IF docs = <<>> THEN m
    ELSE LET d == Head(docs)
         IN  entriesToMap(Tail(docs),
                 [k \in (DOMAIN m) \cup {d.Key} |->
                     IF k = d.Key THEN d.Doc ELSE m[k]])

\* lines 62-67: the entries r of the section as a map
pathDocsOf(r) == [doc |-> r.doc, docs |-> entriesToMap(r.entries, <<>>)]

\* lines 61-68
parsePathDoc(d) == pathDocsOf(parseDocSection(d, PathDocPrefix))

\* lines 181-182: the errors of e with the remainder and the path docs of p
endpointDocs(e, p) == [doc |-> p.doc, errors |-> e.errors, pathDocs |-> p.docs]

\* line 182: parsePathDoc on the remainder parseErrorDoc returned as e
pathDocsAfter(e) == endpointDocs(e, parsePathDoc(e.doc))

\* lines 181-182 of parseCode: errors first, then path docs on its remainder
parseEndpointDoc(d) == pathDocsAfter(parseErrorDoc(d))

(***************************************************************************)
(* Doc texts                                                               *)
(***************************************************************************)
\* "errors:"
LnErrLabel == <<101, 114, 114, 111, 114, 115, 58>>
\* "path params:"
LnPathLabel == <<112, 97, 116, 104, 32, 112, 97, 114, 97, 109, 115, 58>>
\* "- a: x"
LnDashA == <<45, 32, 97, 58, 32, 120>>
\* " - b: y"
LnDashB == <<32, 45, 32, 98, 58, 32, 121>>
\* "  more"
LnCont == <<32, 32, 109, 111, 114, 101>>
\* "text"
LnText == <<116, 101, 120, 116>>
\* "k: v"
LnColon == <<107, 58, 32, 118>>
LnEmpty == <<>>
\* " "
LnBlank == <<32>>
\* "c:"
LnShort == <<99, 58>>

LinePool == {LnErrLabel, LnPathLabel, LnDashA, LnDashB, LnCont, LnText,
             LnColon, LnEmpty, LnBlank, LnShort}

\* "Does X.\nerrors:\n- NotFound: no such thing\n- Internal: oops\n\n
\* more text"
ExampleDoc ==
    <<68, 111, 101, 115, 32, 88, 46, 10, 101, 114, 114, 111, 114, 115, 58,
    10, 45, 32, 78, 111, 116, 70, 111, 117, 110, 100, 58, 32, 110, 111, 32,
    115, 117, 99, 104, 32, 116, 104, 105, 110, 103, 10, 45, 32, 73, 110, 116,
    101, 114, 110, 97, 108, 58, 32, 111, 111, 112, 115, 10, 10, 109, 111,
    114, 101, 32, 116, 101, 120, 116>>
\* "Does X.\n\nmore text"
ExampleRemainder ==
    <<68, 111, 101, 115, 32, 88, 46, 10, 10, 109, 111, 114, 101, 32, 116,
    101, 120, 116>>
ExampleEntries ==
    \* "NotFound": "no such thing", "Internal": "oops"
    << [Key |-> <<78, 111, 116, 70, 111, 117, 110, 100>>,
        Doc |-> <<110, 111, 32, 115, 117, 99, 104, 32, 116, 104, 105, 110, 103>>],
       [Key |-> <<73, 110, 116, 101, 114, 110, 97, 108>>,
        Doc |-> <<111, 111, 112, 115>>] >>

LineSeqs == UNION {[1..n -> LinePool] : n \in 1..MaxLines}

\* a path-params section in which key a occurs twice, first with a
\* continuation line
DupKeyDoc == Join(<<LnPathLabel, LnDashA, LnCont, LnDashB, LnDashA>>, LF)

\* "\verrors:", "- a: x\u00a0", "a\u00a0": a label line that begins with a
\* vertical tab, an entry whose value is followed by a no-break space, and a
\* last line of three bytes
VTabDoc ==
    Join(<<<<11>> \o LnErrLabel, LnDashA \o <<194, 160>>, <<97, 194, 160>>>>, LF)

\* "\u1680errors:", "- a: x\u2003", "a\u00e9": white space above Latin-1
\* around the label and the value, and a last line of three bytes
WideSpaceDoc ==
    Join(<<<<225, 154, 128>> \o LnErrLabel, LnDashA \o <<226, 128, 131>>,
           <<97, 195, 169>>>>, LF)

\* a section with an entry, two empty lines, and an entry-shaped line after them
TwoBlankDoc ==
    Join(<<LnText, LnErrLabel, LnDashA, LnEmpty, LnEmpty, LnDashB, LnCont>>, LF)

Docs ==
    {Join(ls, LF) : ls \in LineSeqs}
        \cup {ExampleDoc, TwoBlankDoc, DupKeyDoc, VTabDoc, WideSpaceDoc}

Labels == {ErrDocPrefix, PathDocPrefix}

(***************************************************************************)
(* parseCode: data                                                         *)
(***************************************************************************)
\* a nil pointer is the empty sequence, a non-nil one holds its referent
NilPtr == <<>>
NoError == "nil"

Packages == {"A", "B"}
Files == {"a1.go", "a2.go", "b1.go"}
PkgOf == [f \in Files |-> IF f = "b1.go" THEN "B" ELSE "A"]

\* schema.Type values
NamedType(name, d) == [Kind |-> "named", Name |-> name, Doc |-> d]
PointerType(elem) == [Kind |-> "pointer", Elem |-> elem]
BuiltinType(name) == [Kind |-> "builtin", Name |-> name]

\* " F\n"
DocFoo == <<32, 70, 10>>
\* "B"
DocBar == <<66>>
TyFoo == NamedType("Foo", DocFoo)
TyBar == NamedType("Bar", DocBar)

\* apienc.ParameterEncoding values
ParamID == [SrcName |-> "ID", WireName |-> "id", Location |-> "query",
            \* " id "
            Type |-> "string", Doc |-> <<32, 105, 100, 32>>]
ParamTok == [SrcName |-> "Tok", WireName |-> "x-tok", Location |-> "header",
             Type |-> "int", Doc |-> <<>>]

\* a doc comment with a path-params section followed by an errors section
DocSections ==
    Join(<<LnText, LnPathLabel, LnDashB, LnErrLabel, LnDashA, LnCont>>, LF)
DocPlain == Join(<<LnText, LnCont>>, LF)

\* "it", "b"
PathItems == << [Type |-> "literal", Value |-> <<105, 116>>],
                [Type |-> "param", Value |-> <<98>>] >>

\* api.Endpoint values as the parser hands them over (File is set per file).
\* SameType: request *Foo and response Foo, both wire-encoded.
EpSameType ==
    [Kind |-> "endpoint", Name |-> "Same", Doc |-> DocSections,
     HTTPMethods |-> <<"GET", "POST">>, Access |-> "public", Path |-> PathItems,
     Request |-> PointerType(TyFoo), Response |-> TyFoo,
     RequestEncoding |-> <<[AllParameters |-> <<ParamID, ParamTok>>]>>,
     ResponseEncoding |-> <<[AllParameters |-> <<ParamID>>]>>]
\* TwoTypes: request Foo and response **Bar, both wire-encoded.
EpTwoTypes ==
    [Kind |-> "endpoint", Name |-> "Two", Doc |-> DocPlain,
     HTTPMethods |-> <<"POST">>, Access |-> "auth", Path |-> PathItems,
     Request |-> TyFoo, Response |-> PointerType(PointerType(TyBar)),
     RequestEncoding |-> <<[AllParameters |-> <<ParamID>>]>>,
     ResponseEncoding |-> <<[AllParameters |-> <<ParamTok>>]>>]
\* NoEnc: request Foo without wire encoding, response of a builtin type.
EpNoEnc ==
    [Kind |-> "endpoint", Name |-> "NoEnc", Doc |-> DocSections,
     HTTPMethods |-> <<"PUT">>, Access |-> "private", Path |-> <<>>,
     Request |-> TyFoo, Response |-> BuiltinType("string"),
     RequestEncoding |-> <<>>,
     ResponseEncoding |-> NilPtr]
\* the nil schema.Type of an endpoint that declares no request or response
NilType == [Kind |-> "nil"]
\* Raw: neither a request nor a response type.
EpRaw ==
    [Kind |-> "endpoint", Name |-> "Raw", Doc |-> DocPlain,
     HTTPMethods |-> <<"GET", "POST">>, Access |-> "public", Path |-> PathItems,
     Request |-> NilType, Response |-> PointerType(BuiltinType("int")),
     RequestEncoding |-> <<>>,
     ResponseEncoding |-> NilPtr]
\* a resource that is no *api.Endpoint
ResOther == [Kind |-> "other"]

EndpointShapes == {EpSameType, EpTwoTypes, EpNoEnc}

AtFile(r, f) == [k \in (DOMAIN r) \cup {"File"} |-> IF k = "File" THEN f ELSE r[k]]

\* schema.Decl values
\* "a "
FieldA == [Name |-> "A", Type |-> "string", Doc |-> <<97, 32>>]
FieldB == [Name |-> "B", Type |-> "*Foo", Doc |-> <<>>]
DeclFoo == [Kind |-> "type", File |-> "a1.go", Name |-> "Foo",
            Type |-> [Kind |-> "struct", Fields |-> <<FieldA>>], Doc |-> DocFoo]
DeclBar == [Kind |-> "type", File |-> "b1.go", Name |-> "Bar",
            Type |-> [Kind |-> "struct", Fields |-> <<FieldA, FieldB>>], Doc |-> DocBar]
DeclBaz == [Kind |-> "type", File |-> "a2.go", Name |-> "Baz",
            Type |-> [Kind |-> "struct", Fields |-> <<FieldB>>], Doc |-> <<>>]
\* a second struct of a1.go, referenced from package B only
DeclQux == [Kind |-> "type", File |-> "a1.go", Name |-> "Qux",
            Type |-> [Kind |-> "struct", Fields |-> <<FieldA>>], Doc |-> <<>>]
DeclAlias == [Kind |-> "type", File |-> "a2.go", Name |-> "Alias",
              Type |-> BuiltinType("int"), Doc |-> <<>>]
DeclFunc == [Kind |-> "func", File |-> "b1.go", Name |-> "Helper"]

\* the caller's endpoint records before the run: zero values, or values left
\* by an earlier synchronization
FreshEndpoint ==
    [Name |-> "", Doc |-> <<>>, Errors |-> <<>>, Method |-> "", Visibility |-> "",
     Language |-> "", Path |-> <<>>, Types |-> <<>>,
     RequestType |-> "", ResponseType |-> ""]
StaleEndpoint ==
    \* "o"
    [Name |-> "Old", Doc |-> <<111>>, Errors |-> <<>>, Method |-> "GET",
     Visibility |-> "public", Language |-> "GO", Path |-> <<>>,
     Types |-> <<[Name |-> "OldT", Doc |-> <<>>, Fields |-> <<>>]>>,
     RequestType |-> "OldReq", ResponseType |-> "OldResp"]

(***************************************************************************)
(* parseCode: helpers                                                      *)
(***************************************************************************)
\* lines 115-123
RECURSIVE deref(_)
deref(p) == IF p.Kind = "pointer" THEN deref(p.Elem) ELSE p

\* schema.NamedType.String(): the declared name
TypeString(nr) == nr.Name

\* toPathSegments: each declared segment with the documentation of the
\* path-params entry of its name, if any
toPathSegments(path, pathDocs) ==
    [k \in 1..Len(path) |->
        [Type |-> path[k].Type, Value |-> path[k].Value,
         Doc |-> IF path[k].Value \in DOMAIN pathDocs
                 THEN pathDocs[path[k].Value] ELSE <<>>]]

\* overlays.get: the overlay of a file, found only for the Targets' files
overlaysGet(svcs, file) == [ok |-> file \in DOMAIN svcs, file |-> file]

\* overlays.pkgPaths: the packages of the Targets' files
pkgPaths(svcs) == {PkgOf[f] : f \in DOMAIN svcs}

\* overlays.validationErrors: the diagnostics in the caller's representation
validationErrors(list) ==
    [k \in 1..Len(list) |-> [Message |-> list[k]]]

\* lines 195-203 and 213-221: one TypeFieldInput per wire parameter
encodedFields(params) ==
    [k \in 1..Len(params) |->
        [Name |-> params[k].SrcName, WireName |-> params[k].WireName,
         Location |-> params[k].Location, Type |-> params[k].Type,
         Doc |-> TrimSpace(params[k].Doc)]]

\* lines 246-252: one TypeFieldInput per struct field, WireName and Location
\* left at their zero values
structFields(fields) ==
    [k \in 1..Len(fields) |->
        [Name |-> fields[k].Name, WireName |-> "", Location |-> "",
         Type |-> fields[k].Type, Doc |-> TrimSpace(fields[k].Doc)]]

\* lines 189-206: the TypeInputs the request contributes
requestTypes(r) ==
    LET nr == deref(r.Request)
    IN  IF nr.Kind = "named" /\ Len(r.RequestEncoding) > 0
        THEN << [Name |-> TypeString(nr), Doc |-> TrimSpace(nr.Doc),
                 Fields |-> encodedFields(r.RequestEncoding[1].AllParameters)] >>
        ELSE <<>>

\* lines 207-224: the TypeInputs the response contributes, appended as they are
responseTypes(r) ==
    LET nr == deref(r.Response)
    IN  IF nr.Kind = "named" /\ r.ResponseEncoding # NilPtr
        THEN << [Name |-> TypeString(nr), Doc |-> TrimSpace(nr.Doc),
                 Fields |-> encodedFields(r.ResponseEncoding[1].AllParameters)] >>
        ELSE <<>>

\* mutant of populateEndpoint: a reference that is no named type clears the
\* type name
populateEndpointClearsNames(e, r) ==
    LET pd == parseEndpointDoc(r.Doc)
        req == deref(r.Request)
        resp == deref(r.Response)
    IN  [e EXCEPT
            !.Doc = pd.doc,
            !.Errors = pd.errors,
            !.Name = r.Name,
            !.Method = r.HTTPMethods[1],
            !.Visibility = r.Access,
            !.Language = "GO",
            !.Path = toPathSegments(r.Path, pd.pathDocs),
            !.Types = requestTypes(r) \o responseTypes(r),
            !.RequestType = IF req.Kind = "named" THEN TypeString(req) ELSE "",
            !.ResponseType = IF resp.Kind = "named" THEN TypeString(resp) ELSE ""]

\* lines 179-224: the endpoint record after an endpoint declaration
populateEndpoint(e, r) ==
    LET pd == parseEndpointDoc(r.Doc)
        req == deref(r.Request)
        resp == deref(r.Response)
    IN  [e EXCEPT
            !.Doc = pd.doc,
            !.Errors = pd.errors,
            !.Name = r.Name,
            !.Method = r.HTTPMethods[1],
            !.Visibility = r.Access,
            !.Language = "GO",
            !.Path = toPathSegments(r.Path, pd.pathDocs),
            !.Types = requestTypes(r) \o responseTypes(r),
            !.RequestType = IF req.Kind = "named" THEN TypeString(req) ELSE @,
            !.ResponseType = IF resp.Kind = "named" THEN TypeString(resp) ELSE @]

\* mutant of correlateResource: an endpoint of an unclaimed file is written
\* to a Target of the same package
correlateResourcePkgFallback(svcs, r) ==
    IF r.Kind # "endpoint" THEN svcs
    ELSE LET same == {f \in DOMAIN svcs : PkgOf[f] = PkgOf[r.File]}
             file == IF r.File \in DOMAIN svcs \/ same = {}
                     THEN r.File
                     ELSE CHOOSE f \in same : TRUE
         IN  IF file \notin DOMAIN svcs THEN svcs
             ELSE [svcs EXCEPT ![file] = populateEndpoint(@, r)]

\* lines 173-225: one resource of the pass
correlateResource(svcs, r) ==
    IF r.Kind # "endpoint" THEN svcs
    ELSE LET o == overlaysGet(svcs, r.File)
         IN  IF ~o.ok THEN svcs
             ELSE [svcs EXCEPT ![o.file] = populateEndpoint(@, r)]

\* line 240: slices.ContainsFunc(e.Types, name equals)
containsType(types, name) == \E k \in 1..Len(types) : types[k].Name = name

\* lines 229-254: one parsed declaration in the type sweep
correlateDecl(svcs, d) ==
    IF d.Kind # "type" THEN svcs
    ELSE IF d.Type.Kind # "struct" THEN svcs
    ELSE LET o == overlaysGet(svcs, d.File)
         IN  IF ~o.ok THEN svcs
             ELSE IF containsType(svcs[o.file].Types, d.Name) THEN svcs
             ELSE [svcs EXCEPT ![o.file].Types =
                      Append(@, [Name |-> d.Name, Doc |-> TrimSpace(d.Doc),
                                 Fields |-> structFields(d.Type.Fields)])]

\* mutant of deferredResult: a nil rtn is not replaced
deferredResultKeepsNil(r, svcs, list) ==
    IF r = NilPtr THEN NilPtr
    ELSE << [r[1] EXCEPT !.Errors = validationErrors(list)] >>

\* mutant of deferredResult: Errors is set only on the result the deferred
\* function itself creates
deferredResultOnlyWhenNil(r, svcs, list) ==
    IF r = NilPtr THEN << [Services |-> svcs, Errors |-> validationErrors(list)] >>
    ELSE r

\* lines 148-156: the deferred function, on the value rtn holds when it runs
deferredResult(r, svcs, list) ==
    LET filled == IF r = NilPtr THEN [Services |-> svcs, Errors |-> <<>>] ELSE r[1]
    IN  << [filled EXCEPT !.Errors = validationErrors(list)] >>

(***************************************************************************)
(* SpecDoc: the section parser applied to every doc text                   *)
(***************************************************************************)
\* the parseCode variables while only the section parser is exercised
CodeIdle ==
    /\ services = <<>>
    /\ initial = <<>>
    /\ passResources = <<>>
    /\ passDecls = <<>>
    /\ parsedDecls = <<>>
    /\ errs = <<>>
    /\ pc = "idle"
    /\ pkgsLeft = {}
    /\ pkgOrder = <<>>
    /\ resIdx = 0
    /\ declIdx = 0
    /\ abortAt = "none"
    /\ rtn = <<>>
    /\ err = "nil"

InitDoc ==
    /\ doc \in Docs
    /\ dpc = "input"
    /\ section = <<>>
    /\ outDoc = <<>>
    /\ outEntries = <<>>
    /\ outErrors = <<>>
    /\ outPathDocs = <<>>
    /\ CodeIdle

CallParseDocSection ==
    /\ dpc = "input"
    /\ \E label \in Labels :
         LET r == parseDocSection(doc, label)
         IN  /\ section' = label
             /\ outDoc' = r.doc
             /\ outEntries' = r.entries
    /\ dpc' = "parseDocSection"
    /\ UNCHANGED <<doc, outErrors, outPathDocs>>
    /\ UNCHANGED codeVars

CallParsePathDoc ==
    /\ dpc = "input"
    /\ LET r == parsePathDoc(doc)
       IN  /\ outDoc' = r.doc
           /\ outPathDocs' = r.docs
    /\ dpc' = "parsePathDoc"
    /\ UNCHANGED <<doc, section, outEntries, outErrors>>
    /\ UNCHANGED codeVars

CallParseEndpointDoc ==
    /\ dpc = "input"
    /\ LET r == parseEndpointDoc(doc)
       IN  /\ outDoc' = r.doc
           /\ outErrors' = r.errors
           /\ outPathDocs' = r.pathDocs
    /\ dpc' = "parseEndpointDoc"
    /\ UNCHANGED <<doc, section, outEntries>>
    /\ UNCHANGED codeVars

NextDoc == CallParseDocSection \/ CallParsePathDoc \/ CallParseEndpointDoc

SpecDoc == InitDoc /\ [][NextDoc]_vars

(***************************************************************************)
(* Properties of the section parser (checked under SpecDoc)                *)
(***************************************************************************)
DocLines == Split(doc, LF)

\* 1-based positions of the lines of ls that carry the label
LabelIdx(ls, label) == {i \in 1..Len(ls) : IsSectionLabel(ls[i], label)}

HasColon(line) == IndexFrom(line, Colon, 1) # 0

\* the text made of the first n lines of ls
FirstLines(ls, n) == Join(SubSeq(ls, 1, n), LF)

\* C1: for a doc with a label section, the remainder is the text with only
\* the section's lines (label line through last consumed line) removed, so
\* the lines before the label and the lines after the section both survive;
\* the spec's example doc yields "Does X.\n\nmore text" and its two entries.
C1_RemainderKeepsTextAfterSection ==
    dpc = "parseDocSection" =>
        /\ LabelIdx(DocLines, section) # {} =>
              LET sc == scanLines(DocLines, section, 0, -1, -1)
              IN  outDoc = Join(SubSeq(DocLines, 1, sc.start)
                                \o SubSeq(DocLines, sc.end + 2, Len(DocLines)),
                                LF)
        /\ (doc = ExampleDoc /\ section = ErrDocPrefix) =>
              /\ outDoc = ExampleRemainder
              /\ outEntries = ExampleEntries

\* lines a..b of ls as a text
LinesText(ls, a, b) == Join(SubSeq(ls, a, b), LF)

\* C2: parseErrorDoc followed by parsePathDoc on its remainder: for a doc
\* with one errors section and one path-params section, in either order, the
\* error list is exactly the entries of the errors section and the path map
\* exactly the entries of the path-params section (each section reaching up
\* to the other section's label line, or to the end of the text).
C2_EachExtractionOwnSection ==
    dpc = "parseEndpointDoc" =>
        \A e \in LabelIdx(DocLines, ErrDocPrefix),
           p \in LabelIdx(DocLines, PathDocPrefix) :
            (/\ LabelIdx(DocLines, ErrDocPrefix) = {e}
             /\ LabelIdx(DocLines, PathDocPrefix) = {p}) =>
                LET n == Len(DocLines)
                    errSec == LinesText(DocLines, e, IF p > e THEN p - 1 ELSE n)
                    pathSec == LinesText(DocLines, p, IF e > p THEN e - 1 ELSE n)
                IN  /\ outErrors = parseErrorDoc(errSec).errors
                    /\ outPathDocs = parsePathDoc(pathSec).docs

\* C6: a doc in which no line, trimmed, starts with label + ":" is returned
\* unchanged, character for character, with an empty entry list.
C6_NoLabelUnchanged ==
    (dpc = "parseDocSection" /\ LabelIdx(DocLines, section) = {}) =>
        /\ outDoc = doc
        /\ outEntries = <<>>

\* C6 witness: a label-free doc holding an indented line and a dash entry
\* line (trimming or entry collection would show) has been parsed.
C6_Witness ==
    /\ dpc = "parseDocSection"
    /\ LabelIdx(DocLines, section) = {}
    /\ \E i, j \in 1..Len(DocLines) :
          DocLines[i] = LnCont /\ DocLines[j] = LnDashB
    /\ outDoc = doc

\* C7: when a label line is followed by two consecutive empty lines, nothing
\* after the second empty line contributes to the entries: the entries are
\* those of the text cut after the second empty line.
C7_NothingAfterTwoBlankLines ==
    dpc = "parseDocSection" =>
        \A s \in LabelIdx(DocLines, section), j \in 2..Len(DocLines) :
            (s < j - 1 /\ DocLines[j - 1] = <<>> /\ DocLines[j] = <<>>) =>
                outEntries =
                    parseDocSection(FirstLines(DocLines, j), section).entries

\* C7 witness: an entry, two empty lines, then a "- key: value" line that is
\* not among the returned entries.
C7_Witness ==
    /\ dpc = "parseDocSection"
    /\ doc = TwoBlankDoc
    /\ section = ErrDocPrefix
    \* "a", "x"
    /\ outEntries = <<[Key |-> <<97>>, Doc |-> <<120>>]>>

\* a line that neither begins with a dash marker nor is indented, carries no
\* colon and is long enough for the first-two-bytes test of line 82
EndsSectionLine(line) ==
    /\ Len(line) > 2
    /\ TrimLeftSpace(line) = line
    /\ line[1] # Dash
    /\ ~HasColon(line)

\* C8: the section ends at the first line after the label that neither begins
\* with a dash marker nor is an indented continuation; that line and all
\* lines after it contribute nothing to the entries: the entries are those of
\* the text cut before the terminating line.
C8_SectionEndsAtTerminator ==
    dpc = "parseDocSection" =>
        \A s \in LabelIdx(DocLines, section), t \in 1..Len(DocLines) :
            (/\ LabelIdx(DocLines, section) = {s}
             /\ s < t
             /\ EndsSectionLine(DocLines[t])
             /\ \A u \in (s + 1)..(t - 1) : ~EndsSectionLine(DocLines[u])) =>
                outEntries =
                    parseDocSection(FirstLines(DocLines, t - 1), section).entries

\* the colon lines among ls, in order
ColonLines(ls) == SelectSeq(ls, HasColon)

\* key and value the claim gives a colon line
ColonKey(line) ==
    TrimSpace(TrimPrefix(TrimSpace(Cut(line, Colon).before), <<Dash>>))
ColonValue(line) == TrimSpace(Cut(line, Colon).after)

\* C9: in a section not ended by the two-blank-line rule, every line holding a
\* colon starts a new entry (key: text before the first colon without leading
\* dash and whitespace; value: trimmed text after it), with or without a dash
\* marker, wherever it stands, also as the last line of the text.
C9_EveryColonLineStartsEntry ==
    dpc = "parseDocSection" =>
        \A s \in LabelIdx(DocLines, section) :
            (/\ LabelIdx(DocLines, section) = {s}
             /\ \A j \in (s + 1)..Len(DocLines) :
                   ~(DocLines[j] = <<>> /\ TrimSpace(DocLines[j - 1]) = <<>>)) =>
                LET cl == ColonLines(SubSeq(DocLines, s + 1, Len(DocLines)))
                IN  /\ Len(outEntries) = Len(cl)
                    /\ \A k \in 1..Len(cl) :
                          /\ outEntries[k].Key = ColonKey(cl[k])
                          /\ HasPrefix(outEntries[k].Doc, ColonValue(cl[k]))

\* the lines the entry loop of lines 99-111 ranges over, as the scan left
\* them (trimmed): lines[start+1 : end+1]
SectionLines ==
    LET sc == scanLines(DocLines, section, 0, -1, -1)
    IN  IF sc.start = -1 THEN <<>>
        ELSE SubSeq(sc.lines, sc.start + 2, sc.end + 1)

\* the positions of the key lines (lines holding a colon) among ls
KeyIdx(ls) == {i \in 1..Len(ls) : HasColon(ls[i])}

\* the position of the first key line after position i, or one past the end
NextKeyIdx(ls, i) ==
    IF \E j \in KeyIdx(ls) : j > i
    THEN CHOOSE j \in KeyIdx(ls) : j > i /\ \A h \in KeyIdx(ls) : h > i => j <= h
    ELSE Len(ls) + 1

NonEmptyLine(line) == line # <<>>

\* the non-empty lines between the key line at position i and the next one
Continuations(ls, i) ==
    SelectSeq(SubSeq(ls, i + 1, NextKeyIdx(ls, i) - 1), NonEmptyLine)

\* C15: a section line that is non-empty once trimmed and holds no colon
\* creates no entry: there is one entry per key line, in the order of the
\* key lines; the value of an entry is the value of its key line followed by
\* every such line up to the next key line, each after a line break; the
\* lines standing before the first key line are in no entry.
C15_ContinuationJoinsLastEntry ==
    dpc = "parseDocSection" =>
        LET sec == SectionLines
        IN  /\ Len(outEntries) = Cardinality(KeyIdx(sec))
            /\ \A i \in KeyIdx(sec) :
                  LET k == Cardinality({j \in KeyIdx(sec) : j <= i})
                  IN  /\ outEntries[k].Key = ColonKey(sec[i])
                      /\ outEntries[k].Doc =
                            Join(<<ColonValue(sec[i])>> \o Continuations(sec, i),
                                 LF)

\* C15 witness: a continuation line directly after the label line, an entry,
\* and a continuation line after it: one entry, whose value carries the
\* second continuation only.
C15_Witness ==
    /\ dpc = "parseDocSection"
    /\ section = ErrDocPrefix
    /\ DocLines = <<LnErrLabel, LnCont, LnDashA, LnCont>>
    \* "a", "x\nmore"
    /\ outEntries = <<[Key |-> <<97>>,
                       Doc |-> <<120, 10, 109, 111, 114, 101>>]>>

\* the entries of the path-params section of the doc
PathEntries == parseDocSection(doc, PathDocPrefix).entries

\* C16: the map parsePathDoc returns has exactly the keys of the entries of
\* the path-params section, and maps a key to the documentation of the last
\* entry of that key; the remainder is that of the section extraction.
C16_LastPathDocWins ==
    dpc = "parsePathDoc" =>
        /\ outDoc = parseDocSection(doc, PathDocPrefix).doc
        /\ DOMAIN outPathDocs = {PathEntries[k].Key : k \in 1..Len(PathEntries)}
        /\ \A k \in 1..Len(PathEntries) :
              (\A j \in (k + 1)..Len(PathEntries) :
                    PathEntries[j].Key # PathEntries[k].Key)
                 => outPathDocs[PathEntries[k].Key] = PathEntries[k].Doc

\* C16 witness: key a occurs in two entries with different documentation
\* around an entry of key b; the map has the two keys and a's last
\* documentation.
C16_Witness ==
    /\ dpc = "parsePathDoc"
    /\ doc = DupKeyDoc
    /\ Len(PathEntries) = 3
    \* "a", "x\nmore"
    /\ PathEntries[1] = [Key |-> <<97>>,
                         Doc |-> <<120, 10, 109, 111, 114, 101>>]
    \* keys "a" and "b", values "x" and "y"
    /\ DOMAIN outPathDocs = {<<97>>, <<98>>}
    /\ outPathDocs[<<97>>] = <<120>>
    /\ outPathDocs[<<98>>] = <<121>>

Min(S) == CHOOSE x \in S : \A y \in S : x <= y
Max(S) == CHOOSE x \in S : \A y \in S : y <= x

\* 1-based position of the last line the scan looks at: the first empty line
\* after the first label line whose previous line is blank, or the last line
LastScanned(ls, label) ==
    LET f == Min(LabelIdx(ls, label))
        stops == {j \in (f + 1)..Len(ls) :
                     ls[j] = <<>> /\ TrimSpace(ls[j - 1]) = <<>>}
    IN  IF stops = {} THEN Len(ls) ELSE Min(stops)

\* the label lines the scan looks at
ScannedLabels(ls, label) ==
    {i \in LabelIdx(ls, label) : i <= LastScanned(ls, label)}

\* C18: when the scan meets the label on several lines, the section starts
\* at the last of them: the entries are those of the text that begins at
\* that last label line, and the remainder is every line before it, the
\* lines from the first label line on trimmed, the earlier section included.
C18_LastLabelStartsSection ==
    (dpc = "parseDocSection" /\ Cardinality(ScannedLabels(DocLines, section)) > 1) =>
        LET f == Min(ScannedLabels(DocLines, section))
            s == Max(ScannedLabels(DocLines, section))
        IN  /\ outDoc =
                 Join([i \in 1..(s - 1) |->
                          IF i >= f THEN TrimSpace(DocLines[i]) ELSE DocLines[i]],
                      LF)
            /\ outEntries =
                 parseDocSection(LinesText(DocLines, s, Len(DocLines)),
                                 section).entries

\* C18 witness: two errors sections; the entry of the first one is part of
\* the remainder, trimmed, and only the entry of the second one is returned.
C18_Witness ==
    /\ dpc = "parseDocSection"
    /\ section = ErrDocPrefix
    /\ DocLines = <<LnErrLabel, LnDashB, LnErrLabel, LnDashA>>
    /\ outDoc = Join(<<LnErrLabel, TrimSpace(LnDashB)>>, LF)
    \* "a", "x"
    /\ outEntries = <<[Key |-> <<97>>, Doc |-> <<120>>]>>

\* C19: the scan evaluates lines[i-1] only in iterations i >= 1, and when a
\* label was found it ends with 0 <= start <= end < len(lines), so that
\* lines[start+1 : end+1] and lines[:start] are valid slices.
C19_ScanStaysInBounds ==
    dpc = "parseDocSection" =>
        LET sc == scanLines(DocLines, section, 0, -1, -1)
        IN  /\ \A i \in sc.reads : 1 <= i /\ i <= Len(DocLines) - 1
            /\ sc.start # -1 =>
                  /\ 0 <= sc.start
                  /\ sc.start <= sc.end
                  /\ sc.end < Len(DocLines)

\* C19 witness: a doc that begins with an empty line, whose label line is
\* followed by an empty line (lines[i-1] is read there, at i = 2) and by a
\* last line that puts end back onto it.
C19_Witness ==
    /\ dpc = "parseDocSection"
    /\ section = ErrDocPrefix
    /\ DocLines = <<LnEmpty, LnErrLabel, LnEmpty, LnText>>
    /\ scanLines(DocLines, section, 0, -1, -1).reads = {2}
    /\ scanLines(DocLines, section, 0, -1, -1).start = 1
    /\ scanLines(DocLines, section, 0, -1, -1).end = 2

(***************************************************************************)
(* Spec: one call of parseCode                                             *)
(***************************************************************************)
TargetSets == (SUBSET Files) \ {{}}

\* what a file contributes to pass.Resources(): nothing, or one endpoint
FileResources(f) == {<<>>} \cup {<<AtFile(s, f)>> : s \in EndpointShapes}

ResourceLists(pkg) ==
    IF pkg = "A"
    THEN {x \o y : x \in FileResources("a1.go"), y \in FileResources("a2.go")}
    ELSE {<<ResOther>> \o x :
             x \in FileResources("b1.go") \cup {<<AtFile(EpRaw, "b1.go")>>}}

\* the pass in which the schema parser first parses each struct declaration
DeclPasses == [{"Foo", "Bar", "Baz"} -> Packages]

DeclsOfPass(dp, pkg) ==
    (IF dp["Foo"] = pkg THEN <<DeclFoo>> ELSE <<>>)
    \o (IF pkg = "A" THEN <<DeclAlias>> ELSE <<DeclFunc>>)
    \o (IF dp["Bar"] = pkg THEN <<DeclBar>> ELSE <<>>)
    \o (IF dp["Baz"] = pkg THEN <<DeclBaz>> ELSE <<>>)
    \o (IF pkg = "B" THEN <<DeclQux>> ELSE <<>>)

DocIdle ==
    /\ doc = <<>>
    /\ dpc = "idle"
    /\ section = <<>>
    /\ outDoc = <<>>
    /\ outEntries = <<>>
    /\ outErrors = <<>>
    /\ outPathDocs = <<>>

Init ==
    /\ DocIdle
    /\ \E ts \in TargetSets, e0 \in {FreshEndpoint, StaleEndpoint} :
         services = [f \in ts |-> e0]
    /\ initial = services
    /\ \E dp \in DeclPasses :
         passDecls = [p \in Packages |->
                        IF p \in pkgPaths(services) THEN DeclsOfPass(dp, p) ELSE <<>>]
    /\ passResources \in [Packages -> UNION {ResourceLists(p) : p \in Packages} \cup {<<>>}]
    /\ \A p \in Packages :
         IF p \in pkgPaths(services)
         THEN passResources[p] \in ResourceLists(p)
         ELSE passResources[p] = <<>>
    /\ parsedDecls = <<>>
    /\ errs = <<>>
    /\ pc = "newOverlays"
    /\ pkgsLeft = {}
    /\ pkgOrder = <<>>
    /\ resIdx = 0
    /\ declIdx = 0
    /\ abortAt = "none"
    /\ rtn = NilPtr
    /\ err = NoError

\* lines 126-129: newOverlays fails and parseCode returns nil and the error
NewOverlaysFails ==
    /\ pc = "newOverlays"
    /\ pc' = "done"
    /\ abortAt' = "newOverlays"
    /\ rtn' = NilPtr
    /\ err' = "newOverlays"
    /\ UNCHANGED <<services, initial, passResources, passDecls, parsedDecls, errs,
                   pkgsLeft, pkgOrder, resIdx, declIdx>>
    /\ UNCHANGED docVars

\* lines 126-156: newOverlays succeeds, the session is set up, the deferred
\* function is registered
NewOverlays ==
    /\ pc = "newOverlays"
    /\ pc' = "loadPkgs"
    /\ UNCHANGED <<services, initial, passResources, passDecls, parsedDecls, errs,
                   pkgsLeft, pkgOrder, resIdx, declIdx, abortAt, rtn, err>>
    /\ UNCHANGED docVars

\* the collaborator reports at most one more diagnostic, named after the call
Reports(what) ==
    \/ errs' = errs
    \/ Len(errs) < MaxDiags /\ errs' = Append(errs, what)

\* the collaborator bails out in call `what`: the deferred function of lines
\* 148-156 runs with rtn still nil, and parseCode returns its result
Bailout(what) ==
    /\ pc' = "done"
    /\ abortAt' = what
    /\ Reports(what)
    /\ rtn' = deferredResult(NilPtr, services, errs')
    /\ err' = NoError
    /\ UNCHANGED <<services, initial, passResources, passDecls, parsedDecls,
                   pkgsLeft, pkgOrder, resIdx, declIdx>>
    /\ UNCHANGED docVars

\* lines 158-164: the packages of the Targets are loaded
LoadPkgs ==
    /\ pc = "loadPkgs"
    /\ pc' = "range"
    /\ pkgsLeft' = pkgPaths(services)
    /\ Reports("loadPkgs")
    /\ UNCHANGED <<services, initial, passResources, passDecls, parsedDecls,
                   pkgOrder, resIdx, declIdx, abortAt, rtn, err>>
    /\ UNCHANGED docVars

LoadPkgsBailout ==
    /\ pc = "loadPkgs"
    /\ Bailout("loadPkgs")

\* lines 165-171: the range picks a package (map order) and the parser runs
RunPass ==
    /\ pc = "range"
    /\ \E pkg \in pkgsLeft :
         /\ pkgsLeft' = pkgsLeft \ {pkg}
         /\ pkgOrder' = Append(pkgOrder, pkg)
         /\ parsedDecls' = parsedDecls \o passDecls[pkg]
         /\ Reports(pkg)
    /\ pc' = "resources"
    /\ resIdx' = 1
    /\ UNCHANGED <<services, initial, passResources, passDecls, declIdx, abortAt,
                   rtn, err>>
    /\ UNCHANGED docVars

RunPassBailout ==
    /\ pc = "range"
    /\ \E pkg \in pkgsLeft : Bailout(pkg)

curPkg == pkgOrder[Len(pkgOrder)]

\* lines 172-227: one iteration of the loop over pass.Resources()
NextResource ==
    /\ pc = "resources"
    /\ resIdx <= Len(passResources[curPkg])
    /\ services' = correlateResource(services, passResources[curPkg][resIdx])
    /\ resIdx' = resIdx + 1
    /\ UNCHANGED <<initial, passResources, passDecls, parsedDecls, errs, pc,
                   pkgsLeft, pkgOrder, declIdx, abortAt, rtn, err>>
    /\ UNCHANGED docVars

\* line 172 to line 228: the resources are exhausted, the type sweep starts
ResourcesDone ==
    /\ pc = "resources"
    /\ resIdx > Len(passResources[curPkg])
    /\ pc' = "decls"
    /\ declIdx' = 1
    /\ UNCHANGED <<services, initial, passResources, passDecls, parsedDecls, errs,
                   pkgsLeft, pkgOrder, resIdx, abortAt, rtn, err>>
    /\ UNCHANGED docVars

\* lines 228-255: one iteration of the loop over schemaParser.ParsedDecls()
NextDecl ==
    /\ pc = "decls"
    /\ declIdx <= Len(parsedDecls)
    /\ services' = correlateDecl(services, parsedDecls[declIdx])
    /\ declIdx' = declIdx + 1
    /\ UNCHANGED <<initial, passResources, passDecls, parsedDecls, errs, pc,
                   pkgsLeft, pkgOrder, resIdx, abortAt, rtn, err>>
    /\ UNCHANGED docVars

\* line 255 to line 165: the sweep is over, back to the range over pkgs
DeclsDone ==
    /\ pc = "decls"
    /\ declIdx > Len(parsedDecls)
    /\ pc' = "range"
    /\ UNCHANGED <<services, initial, passResources, passDecls, parsedDecls, errs,
                   pkgsLeft, pkgOrder, resIdx, declIdx, abortAt, rtn, err>>
    /\ UNCHANGED docVars

\* lines 257-259 and the deferred function: the normal return
Return ==
    /\ pc = "range"
    /\ pkgsLeft = {}
    /\ pc' = "done"
    /\ rtn' = deferredResult(<<[Services |-> services, Errors |-> <<>>]>>,
                             services, errs)
    /\ err' = NoError
    /\ UNCHANGED <<services, initial, passResources, passDecls, parsedDecls, errs,
                   pkgsLeft, pkgOrder, resIdx, declIdx, abortAt>>
    /\ UNCHANGED docVars

Next ==
    \/ NewOverlaysFails
    \/ NewOverlays
    \/ LoadPkgs
    \/ LoadPkgsBailout
    \/ RunPass
    \/ RunPassBailout
    \/ NextResource
    \/ ResourcesDone
    \/ NextDecl
    \/ DeclsDone
    \/ Return

Spec == Init /\ [][Next]_vars

(***************************************************************************)
(* A whole run without abort, as a function of the packages' visiting      *)
(* order                                                                   *)
(***************************************************************************)
\* lines 172-227: the loop over pass.Resources()
RECURSIVE correlateResources(_, _)
correlateResources(svcs, rs) ==
    IF rs = <<>> THEN svcs
    ELSE correlateResources(correlateResource(svcs, Head(rs)), Tail(rs))

\* lines 228-255: the loop over schemaParser.ParsedDecls()
RECURSIVE correlateDecls(_, _)
correlateDecls(svcs, ds) ==
    IF ds = <<>> THEN svcs
    ELSE correlateDecls(correlateDecl(svcs, Head(ds)), Tail(ds))

\* lines 165-256: the passes over the packages of `order`, from records svcs
\* and parsed declarations ds
RECURSIVE runPasses(_, _, _)
runPasses(svcs, ds, order) ==
    IF order = <<>> THEN svcs
    ELSE LET pkg == Head(order)
             ds1 == ds \o passDecls[pkg]
         IN  runPasses(
                 correlateDecls(correlateResources(svcs, passResources[pkg]), ds1),
                 ds1, Tail(order))

(***************************************************************************)
(* Properties of parseCode (checked under Spec)                            *)
(***************************************************************************)
Claimed == DOMAIN services

\* C3: in every state of a run, the names of the TypeRecords of each endpoint
\* record's types list are pairwise distinct, also when request and response
\* resolve to the same named type and both are wire-encoded.
C3_TypeNamesDistinct ==
    \A f \in Claimed :
        \A i, j \in 1..Len(services[f].Types) :
            i # j => services[f].Types[i].Name # services[f].Types[j].Name

\* C4 as claimed: every call returns a non-nil SyncResult, whatever fails.
C4_AlwaysResult ==
    pc = "done" => rtn # NilPtr

\* C4 amended: a call returns a non-nil SyncResult and a nil error whenever
\* newOverlays succeeded (also after a bailout in package loading or in the
\* parser); when newOverlays fails it returns a nil result and the error.
C4_ResultUnlessOverlaysFail ==
    pc = "done" =>
        IF abortAt = "newOverlays"
        THEN rtn = NilPtr /\ err # NoError
        ELSE rtn # NilPtr /\ err = NoError

\* C4 witness: the parser bailed out in the second package and a result is
\* returned.
C4_Witness ==
    /\ pc = "done"
    /\ abortAt \in Packages
    /\ Len(pkgOrder) = 1
    /\ rtn # NilPtr

\* the run aborted in the pass of package abortAt after the pass of package
\* pkgOrder[1] was complete
AbortedInSecondPass ==
    /\ pc = "done"
    /\ Len(pkgOrder) = 1
    /\ abortAt \in Packages

\* the records of the same run had the parser not aborted
NoAbortRun == runPasses(initial, <<>>, <<pkgOrder[1], abortAt>>)

\* C5: after an abort in package B following a complete package A,
\* parseCode returns normally; the result's Services are the Targets; every
\* Target of A holds what it holds after a run with no abort; the Targets not
\* reached are as they were; Errors are the diagnostics up to the abort.
C5_AbortKeepsCompletedPackages ==
    AbortedInSecondPass =>
        /\ rtn # NilPtr
        /\ err = NoError
        /\ rtn[1].Services = services
        /\ rtn[1].Errors = validationErrors(errs)
        /\ \A f \in Claimed :
             IF PkgOf[f] = pkgOrder[1]
             THEN services[f] = NoAbortRun[f]
             ELSE services[f] = initial[f]

SameButTypes(e1, e2) == [e1 EXCEPT !.Types = <<>>] = [e2 EXCEPT !.Types = <<>>]

\* the loop over the resources is about to process an endpoint declaration
\* of a file no Target claims
AtUnclaimedEndpoint ==
    /\ pc = "resources"
    /\ resIdx <= Len(passResources[curPkg])
    /\ passResources[curPkg][resIdx].Kind = "endpoint"
    /\ passResources[curPkg][resIdx].File \notin Claimed

IsStructDecl(d) == d.Kind = "type" /\ d.Type.Kind = "struct"

\* the type sweep is about to process a struct declaration of a file no
\* Target claims
AtUnclaimedStruct ==
    /\ pc = "decls"
    /\ declIdx <= Len(parsedDecls)
    /\ IsStructDecl(parsedDecls[declIdx])
    /\ parsedDecls[declIdx].File \notin Claimed

\* C10: processing an endpoint or struct-type declaration whose file no
\* Target claims leaves every Target's record unchanged and adds nothing to
\* the diagnostics.
C10_UnclaimedDeclNoEffect ==
    [][(AtUnclaimedEndpoint \/ AtUnclaimedStruct)
          => (services' = services /\ errs' = errs)]_vars

\* C10 witness: in a pass that filled a Target, an endpoint declaration and
\* then a struct declaration of unclaimed files have been processed.
C10_Witness ==
    /\ pc = "decls"
    /\ declIdx > 1
    /\ IsStructDecl(parsedDecls[declIdx - 1])
    /\ parsedDecls[declIdx - 1].File \notin Claimed
    /\ \E k \in 1..Len(passResources[curPkg]) :
         /\ passResources[curPkg][k].Kind = "endpoint"
         /\ passResources[curPkg][k].File \notin Claimed
    /\ services # initial

\* the type sweep is about to process a struct declaration of a Target's file
AtClaimedStruct ==
    /\ pc = "decls"
    /\ declIdx <= Len(parsedDecls)
    /\ IsStructDecl(parsedDecls[declIdx])
    /\ parsedDecls[declIdx].File \in Claimed

\* the declaration the sweep is about to process was parsed in the first
\* pass: the sweep that followed the first pass has processed it already
SweptBefore ==
    /\ Len(pkgOrder) = 2
    /\ declIdx <= Len(passDecls[pkgOrder[1]])

\* C11: in the type sweep a struct declaration whose name is already the
\* name of a TypeRecord of its Target leaves the Target's record unchanged;
\* otherwise exactly one TypeRecord of that name is appended, no field of
\* which has a wire name or a location; no other Target changes; and a
\* declaration the sweep of an earlier package has processed already appends
\* nothing when the sweep of a later package processes it again.
C11_SweepAppendsOncePerName ==
    [][AtClaimedStruct =>
        LET d == parsedDecls[declIdx]
            old == services[d.File].Types
            new == services'[d.File].Types
        IN  /\ \A g \in Claimed \ {d.File} : services'[g] = services[g]
            /\ SameButTypes(services'[d.File], services[d.File])
            /\ IF \E k \in 1..Len(old) : old[k].Name = d.Name
               THEN new = old
               ELSE /\ Len(new) = Len(old) + 1
                    /\ SubSeq(new, 1, Len(old)) = old
                    /\ new[Len(new)].Name = d.Name
                    /\ Len(new[Len(new)].Fields) = Len(d.Type.Fields)
                    /\ \A k \in 1..Len(new[Len(new)].Fields) :
                          /\ new[Len(new)].Fields[k].WireName = ""
                          /\ new[Len(new)].Fields[k].Location = ""
            /\ SweptBefore => new = old
      ]_vars

\* the passes declare an endpoint in file f
HasEndpointDecl(f) ==
    \E p \in Packages : \E k \in 1..Len(passResources[p]) :
        /\ passResources[p][k].Kind = "endpoint"
        /\ passResources[p][k].File = f

\* the pass of f's package has started, its resources have been processed
EndpointPassRun(f) == \E k \in 1..Len(pkgOrder) : pkgOrder[k] = PkgOf[f]

\* C12 as claimed: no step of the type sweep changes the types list of a
\* Target whose endpoint declaration has not been processed yet.
C12_EndpointBeforeTypes ==
    [][pc = "decls" =>
        \A f \in Claimed :
            (services'[f].Types # services[f].Types /\ HasEndpointDecl(f))
                => EndpointPassRun(f)
      ]_vars

\* a complete run over both packages from freshly initialized Targets
CompleteFreshRun ==
    /\ pc = "done"
    /\ abortAt = "none"
    /\ Len(pkgOrder) = 2
    /\ \A f \in Claimed : initial[f] = FreshEndpoint

\* the records of the run over the same declarations and the same Targets
\* that visits the packages in the other order
OtherOrderRun == runPasses(initial, <<>>, <<pkgOrder[2], pkgOrder[1]>>)

\* C13 as claimed: a complete run from freshly initialized Targets ends with
\* the records the run in the other package order ends with.
C13_PackageOrderIrrelevant == CompleteFreshRun => services = OtherOrderRun

\* C14: once newOverlays has succeeded, the returned SyncResult carries the
\* diagnostic list as it stands at the return, one validation error per
\* diagnostic in order, on the normal return as well as after a bailout.
C14_ErrorsFinalized ==
    (pc = "done" /\ abortAt # "newOverlays") =>
        /\ rtn # NilPtr
        /\ rtn[1].Errors = validationErrors(errs)
        /\ Len(rtn[1].Errors) = Len(errs)
        /\ \A k \in 1..Len(errs) : rtn[1].Errors[k].Message = errs[k]

\* C14 witness: a normal return (no bailout) after both passes, with a
\* diagnostic reported during the run present in the result.
C14_Witness ==
    /\ pc = "done"
    /\ abortAt = "none"
    /\ Len(pkgOrder) = 2
    /\ Len(errs) > 0
    /\ rtn # NilPtr
    /\ Len(rtn[1].Errors) = Len(errs)
    /\ rtn[1].Errors[1].Message = errs[1]

\* the loop over the resources is about to process an endpoint declaration
\* of a Target's file
AtClaimedEndpoint ==
    /\ pc = "resources"
    /\ resIdx <= Len(passResources[curPkg])
    /\ passResources[curPkg][resIdx].Kind = "endpoint"
    /\ passResources[curPkg][resIdx].File \in Claimed

\* the fields an endpoint declaration overwrites whatever the record held
OverwrittenFields == {"Name", "Method", "Visibility", "Doc", "Errors", "Path", "Types"}

\* C17: processing an endpoint declaration of a Target sets name, method,
\* visibility, doc, errors, path and types of the record from the
\* declaration alone (the values a zero record would get); the request
\* (response) type name becomes the name of the named type the reference
\* resolves to after pointer unwrapping, and keeps the value the record held
\* when the reference resolves to no named type; no other Target changes.
C17_UnresolvedKeepsTypeName ==
    [][AtClaimedEndpoint =>
        LET r == passResources[curPkg][resIdx]
            old == services[r.File]
            new == services'[r.File]
            zero == populateEndpoint(FreshEndpoint, r)
            pd == parseEndpointDoc(r.Doc)
        IN  /\ \A g \in Claimed \ {r.File} : services'[g] = services[g]
            /\ \A k \in OverwrittenFields : new[k] = zero[k]
            /\ new.Name = r.Name
            /\ new.Method = r.HTTPMethods[1]
            /\ new.Visibility = r.Access
            /\ new.Doc = pd.doc
            /\ new.Errors = pd.errors
            /\ new.Types = requestTypes(r) \o responseTypes(r)
            /\ new.RequestType = IF deref(r.Request).Kind = "named"
                                 THEN deref(r.Request).Name ELSE old.RequestType
            /\ new.ResponseType = IF deref(r.Response).Kind = "named"
                                  THEN deref(r.Response).Name ELSE old.ResponseType
      ]_vars

\* C17 witness: the endpoint declaration Raw, whose request and response
\* resolve to no named type, has been processed on a record left by an
\* earlier synchronization: every other field is Raw's, the two type names
\* are the old ones.
C17_Witness ==
    /\ pc = "resources"
    /\ resIdx > 1
    /\ "b1.go" \in Claimed
    /\ initial["b1.go"] = StaleEndpoint
    /\ passResources[curPkg][resIdx - 1] = AtFile(EpRaw, "b1.go")
    /\ services["b1.go"].Name = "Raw"
    /\ services["b1.go"].Method = "GET"
    /\ services["b1.go"].Types = <<>>
    /\ services["b1.go"].RequestType = "OldReq"
    /\ services["b1.go"].ResponseType = "OldResp"

====
